---- MODULE Spec2Model ----
(***************************************************************************)
(* WebhookRelay: the inbound handler (internal/server), the bounded        *)
(* fan-out Forwarder (internal/relay) and the trace protocol they share.   *)
(*                                                                         *)
(* Strings are sequences of one-character strings, so that trimming,       *)
(* splitting and joining are computed as the Go code computes them.        *)
(***************************************************************************)
EXTENDS Integers, Sequences, FiniteSets, TLC

(***************************************************************************)
(* Bounds of the model.                                                    *)
(***************************************************************************)
MaxCalls == 2
MaxHttp == 1
MaxApi == 1
MaxAttempts == 2
MaxInboundCalls == 2
MaxInboundAttempts == 2
MaxChainCalls == 3
MaxChainAttempts == 3
MaxHeaderCalls == 1
MaxHeaderAttempts == 2
MaxRelays == 2
MaxConfigCalls == 1
MaxShutdownCalls == 1
MaxBurstCalls == 1
MaxBurstAttempts == 2
MaxTraceLen == 3
MaxAppends == 2

(***************************************************************************)
(* Program constants.                                                      *)
(***************************************************************************)
DefaultConcurrency == 50
StatusAccepted == 202
StatusBadRequest == 400
StatusMethodNotAllowed == 405

HeaderTrace == "X-WebhookRelay-Trace"
HeaderRequestID == "X-WebhookRelay-Request-Id"
HeaderDropped == "X-Relay-Dropped"
SelfLoop == <<"self_loop">>
HeaderRelayRequestID == "X-Relay-Request-Id"

(***************************************************************************)
(* package strings                                                         *)
(***************************************************************************)
IsSpace(ch) == ch = " "

RECURSIVE TrimLeft(_)
TrimLeft(s) ==
    IF s = <<>> THEN s
    ELSE IF IsSpace(Head(s)) THEN TrimLeft(Tail(s)) ELSE s

RECURSIVE TrimRight(_)
TrimRight(s) ==
    IF s = <<>> THEN s
    ELSE IF IsSpace(s[Len(s)]) THEN TrimRight(SubSeq(s, 1, Len(s) - 1)) ELSE s

TrimSpace(s) == TrimRight(TrimLeft(s))

\* strings.Split(s, ","): always at least one part; "" gives [""].
RECURSIVE Split(_)
Split(s) ==
    IF \A i \in DOMAIN s : s[i] # ","
    THEN <<s>>
    ELSE LET k == CHOOSE i \in DOMAIN s :
                      s[i] = "," /\ \A j \in 1..(i - 1) : s[j] # ","
         IN  <<SubSeq(s, 1, k - 1)>> \o Split(SubSeq(s, k + 1, Len(s)))

\* strings.Join(parts, ",")
RECURSIVE Join(_)
Join(parts) ==
    IF parts = <<>> THEN <<>>
    ELSE IF Len(parts) = 1 THEN parts[1]
    ELSE parts[1] \o <<",">> \o Join(Tail(parts))

UpperChar(ch) ==
    CASE ch = "p" -> "P"
      [] ch = "o" -> "O"
      [] ch = "s" -> "S"
      [] ch = "t" -> "T"
      [] ch = "g" -> "G"
      [] ch = "e" -> "E"
      [] ch = "u" -> "U"
      [] OTHER -> ch

ToUpper(s) == [i \in DOMAIN s |-> UpperChar(s[i])]

(***************************************************************************)
(* Trace protocol                                                          *)
(***************************************************************************)
RECURSIVE AnyTrimmedEquals(_, _)
AnyTrimmedEquals(parts, id) ==
    IF parts = <<>> THEN FALSE
    ELSE IF TrimSpace(Head(parts)) = id THEN TRUE
    ELSE AnyTrimmedEquals(Tail(parts), id)

\* A membership test without the test of the empty ID.
traceContainsAnyID(trace, instanceID) ==
    AnyTrimmedEquals(Split(trace), TrimSpace(instanceID))

\* A membership test that forgets to trim the segments.
traceContainsUntrimmed(trace, instanceID) ==
    LET id == TrimSpace(instanceID)
    IN  IF id = <<>> THEN FALSE
        ELSE \E i \in DOMAIN Split(trace) : Split(trace)[i] = id

traceContains(trace, instanceID) ==
    LET id == TrimSpace(instanceID)
    IN  IF id = <<>> THEN FALSE
        ELSE AnyTrimmedEquals(Split(trace), id)

RECURSIVE TrimDropEmpty(_)
TrimDropEmpty(parts) ==
    IF parts = <<>> THEN <<>>
    ELSE LET p == TrimSpace(Head(parts))
         IN  IF p # <<>> THEN <<p>> \o TrimDropEmpty(Tail(parts))
             ELSE TrimDropEmpty(Tail(parts))

\* An append that starts the trace anew with the ID.
appendTraceLast(existing0, instanceID0) ==
    LET existing == TrimSpace(existing0)
        instanceID == TrimSpace(instanceID0)
    IN  IF instanceID = <<>> THEN existing ELSE instanceID

\* An append that leaves out an ID the trace already names.
appendTraceUnique(existing0, instanceID0) ==
    LET existing == TrimSpace(existing0)
        instanceID == TrimSpace(instanceID0)
    IN  IF instanceID = <<>> THEN existing
        ELSE IF existing = <<>> THEN instanceID
        ELSE IF AnyTrimmedEquals(Split(existing), instanceID)
             THEN Join(TrimDropEmpty(Split(existing)))
        ELSE Join(TrimDropEmpty(Split(existing)) \o <<instanceID>>)

appendTrace(existing0, instanceID0) ==
    LET existing == TrimSpace(existing0)
        instanceID == TrimSpace(instanceID0)
    IN  IF instanceID = <<>> THEN existing
        ELSE IF existing = <<>> THEN instanceID
        ELSE Join(TrimDropEmpty(Split(existing)) \o <<instanceID>>)

(***************************************************************************)
(* net/http Header: a map from canonical field names to lists of values.   *)
(***************************************************************************)
CanonicalHeaderKey(k) ==
    CASE k \in {"host", "HOST", "Host"} -> "Host"
      [] k \in {"x-webhookrelay-trace", "X-WebhookRelay-Trace", "X-Webhookrelay-Trace"}
             -> "X-Webhookrelay-Trace"
      [] k \in {"x-webhookrelay-request-id", "X-WebhookRelay-Request-Id",
                "X-Webhookrelay-Request-Id"} -> "X-Webhookrelay-Request-Id"
      [] k \in {"connection", "Connection", "CONNECTION"} -> "Connection"
      [] k \in {"upgrade", "Upgrade"} -> "Upgrade"
      [] k \in {"x-custom", "X-Custom"} -> "X-Custom"
      [] k \in {"transfer-encoding", "Transfer-Encoding"} -> "Transfer-Encoding"
      [] k \in {"x-relay-dropped", "X-Relay-Dropped"} -> "X-Relay-Dropped"
      [] k \in {"x-relay-request-id", "X-Relay-Request-Id"} -> "X-Relay-Request-Id"
      [] OTHER -> k

EmptyHeader == [k \in {} |-> <<>>]

HeaderGet(h, key) ==
    LET k == CanonicalHeaderKey(key)
    IN  IF k \in DOMAIN h /\ h[k] # <<>> THEN h[k][1] ELSE <<>>

HeaderSet(h, key, v) ==
    LET k == CanonicalHeaderKey(key)
    IN  [x \in (DOMAIN h) \cup {k} |-> IF x = k THEN <<v>> ELSE h[x]]

HeaderAdd(h, key, v) ==
    LET k == CanonicalHeaderKey(key)
    IN  [x \in (DOMAIN h) \cup {k} |->
            IF x = k THEN (IF k \in DOMAIN h THEN h[k] ELSE <<>>) \o <<v>>
            ELSE h[x]]

HeaderDel(h, key) ==
    LET k == CanonicalHeaderKey(key)
    IN  [x \in (DOMAIN h) \ {k} |-> h[x]]

EqualFoldHost(k) == k \in {"host", "HOST", "Host"}

\* A list of hop-by-hop headers that leaves out Upgrade.
isHopByHopHeaderShort(k) ==
    CanonicalHeaderKey(k) \in {"Connection", "Proxy-Connection", "Keep-Alive",
                               "Proxy-Authenticate", "Proxy-Authorization", "Te",
                               "Trailer", "Transfer-Encoding"}

isHopByHopHeader(k) ==
    CanonicalHeaderKey(k) \in {"Connection", "Proxy-Connection", "Keep-Alive",
                               "Proxy-Authenticate", "Proxy-Authorization", "Te",
                               "Trailer", "Transfer-Encoding", "Upgrade"}

\* copyHeaders(dst, src): Go ranges over the map in an unspecified order; distinct
\* keys of src are distinct canonical names, so the result does not depend on it.
RECURSIVE AddAll(_, _, _)
AddAll(dst, k, vv) ==
    IF vv = <<>> THEN dst ELSE AddAll(HeaderAdd(dst, k, Head(vv)), k, Tail(vv))

RECURSIVE copyHeadersOver(_, _, _)
copyHeadersOver(dst, src, keys) ==
    IF keys = {} THEN dst
    ELSE LET k == CHOOSE x \in keys : TRUE
             next == IF isHopByHopHeader(CanonicalHeaderKey(k)) THEN dst
                     ELSE AddAll(dst, k, src[k])
         IN  copyHeadersOver(next, src, keys \ {k})

copyHeaders(dst, src) == copyHeadersOver(dst, src, DOMAIN src)

\* applyHeaderOverrides(h, overrides): overrides is a sequence of <<key, value>>
\* pairs standing for the map; the iteration order is a parameter because two
\* keys of the map may share a canonical name.
RECURSIVE applyHeaderOverrides(_, _)
applyHeaderOverrides(h, overrides) ==
    IF overrides = <<>> THEN h
    ELSE LET k == Head(overrides)[1]
             v == Head(overrides)[2]
             next == IF EqualFoldHost(k) THEN h ELSE HeaderSet(h, k, v)
         IN  applyHeaderOverrides(next, Tail(overrides))

(***************************************************************************)
(* package config: configuration values, validation and resolution.        *)
(* Listen paths, URLs and tokens are atomic names; the string functions    *)
(* applied to them are given on the names the model uses.                  *)
(***************************************************************************)
POST == <<"P", "O", "S", "T">>
post == <<"p", "o", "s", "t">>
GET == <<"G", "E", "T">>
PUT == <<"P", "U", "T">>

NoHeaders == <<>>

DestinationConfig(url, method, headers) ==
    [URL |-> url, Method |-> method, Headers |-> headers]

RelayConfig(name, listenPath, methods, destinations) ==
    [Name |-> name, ListenPath |-> listenPath, Methods |-> methods,
     Destinations |-> destinations]

ServerConfig(listenAddr, concurrency) ==
    [ListenAddr |-> listenAddr, BasePath |-> "", Concurrency |-> concurrency]

HasSlashPrefix(p) == p \in {"/", "/a", "/b", "/a/", "/t1", "/t2"}

pathClean(p) ==
    CASE p = "/a/" -> "/a"
      [] p = "" -> "."
      [] OTHER -> p

AddSlash(p) ==
    CASE p = "a" -> "/a"
      [] p = "b" -> "/b"
      [] p = "t1" -> "/t1"
      [] p = "t2" -> "/t2"
      [] OTHER -> p

TrimSpaceName(p) == IF p = " " THEN "" ELSE p

normalizeBasePath(p0) ==
    LET p == TrimSpaceName(p0)
    IN  IF p = "" \/ p = "/" THEN ""
        ELSE LET q == pathClean(IF HasSlashPrefix(p) THEN p ELSE AddSlash(p))
             IN  IF q = "/" THEN "" ELSE q

\* joinPaths with the empty base path, the only base path of the model.
joinPaths(basePath0, listenPath0) ==
    LET listenPath == TrimSpaceName(listenPath0)
    IN  IF listenPath = "" THEN "/"
        ELSE pathClean(IF HasSlashPrefix(listenPath) THEN listenPath
                       ELSE AddSlash(listenPath))

\* relayID: the digest of the listen path, encoded and cut to 16 characters,
\* stands here as one short name per listen path of the model.
\* An ID that does not depend on the listen path.
relayIDShared(listenPath) == <<"a">>

relayID(listenPath) ==
    CASE listenPath = "/a" -> <<"a">>
      [] listenPath = "/b" -> <<"b">>
      [] listenPath = "/t1" -> <<"c">>
      [] listenPath = "/t2" -> <<"d">>
      [] listenPath = "/" -> <<"e">>
      [] OTHER -> <<"f">>

\* (The variant normalises the methods and supplies no default.)
DefaultMethodsNone(r) ==
    [r EXCEPT !.Methods =
        [mi \in DOMAIN r.Methods |-> ToUpper(TrimSpace(r.Methods[mi]))]]

DefaultMethods(r) ==
    [r EXCEPT !.Methods =
        LET ms == IF Len(r.Methods) = 0 THEN <<POST>> ELSE r.Methods
        IN  [mi \in DOMAIN ms |-> ToUpper(TrimSpace(ms[mi]))]]

DefaultDestinations(r) ==
    [r EXCEPT !.Destinations =
        [di \in DOMAIN r.Destinations |->
            [r.Destinations[di] EXCEPT
                !.Method = ToUpper(TrimSpace(r.Destinations[di].Method))]]]

\* A validation that forgets the listen path.
RelayProblemsNoPath(r) ==
    LET d == DefaultMethods(r)
    IN  {"method" : x \in {mi \in DOMAIN d.Methods : d.Methods[mi] = <<>>}}
        \cup (IF Len(r.Destinations) = 0 THEN {"destinations"} ELSE {})

RelayProblems(r) ==
    LET d == DefaultMethods(r)
    IN  {"method" : x \in {mi \in DOMAIN d.Methods : d.Methods[mi] = <<>>}}
        \cup (IF Len(r.Destinations) = 0 THEN {"destinations"} ELSE {})
        \cup (IF Len(r.Destinations) # 0
                 /\ \E di \in DOMAIN r.Destinations :
                        TrimSpaceName(r.Destinations[di].URL) = ""
              THEN {"url"} ELSE {})
        \cup (IF Len(r.Destinations) # 0 /\ r.ListenPath # ""
                 /\ ~HasSlashPrefix(r.ListenPath)
              THEN {"listen_path"} ELSE {})

ConfigProblems(cfg) ==
    (IF TrimSpaceName(cfg.Server.ListenAddr) = "" THEN {"listen_addr"} ELSE {})
    \cup (IF Len(cfg.Relays) = 0 THEN {"relays"} ELSE {})
    \cup UNION {RelayProblems(cfg.Relays[i]) : i \in DOMAIN cfg.Relays}

\* validateAndDefault: the configuration after defaulting.
validateAndDefault(cfg) ==
    [Server |-> [cfg.Server EXCEPT
                    !.Concurrency = IF cfg.Server.Concurrency <= 0
                                    THEN DefaultConcurrency
                                    ELSE cfg.Server.Concurrency,
                    !.BasePath = normalizeBasePath(cfg.Server.BasePath)],
     Relays |-> [i \in DOMAIN cfg.Relays |->
                    IF Len(cfg.Relays[i].Destinations) = 0
                    THEN DefaultMethods(cfg.Relays[i])
                    ELSE DefaultDestinations(DefaultMethods(cfg.Relays[i]))]]

\* Load: the error return of validateAndDefault decides whether a
\* configuration is returned at all.
LoadOK(cfg) == ConfigProblems(cfg) = {}

\* Config{}, the value Load returns next to an error.
NoConfig == [Server |-> ServerConfig("", 0), Relays |-> <<>>]

\* Load: the configuration and whether an error is returned.
Load(raw) ==
    IF LoadOK(raw) THEN [cfg |-> validateAndDefault(raw), err |-> FALSE]
    ELSE [cfg |-> NoConfig, err |-> TRUE]

\* ResolveRelays: toks[i] is the random token drawn for relay i when it
\* declares no listen path.
ResolveRelays(cfg, toks) ==
    [i \in DOMAIN cfg.Relays |->
        LET r == cfg.Relays[i]
            lp0 == TrimSpaceName(r.ListenPath)
            lp == IF lp0 = "" THEN joinPaths(cfg.Server.BasePath, AddSlash(toks[i]))
                  ELSE joinPaths(cfg.Server.BasePath, lp0)
        IN  [ID |-> relayID(lp), Name |-> r.Name, ListenPath |-> lp,
             Methods |-> r.Methods, Destinations |-> r.Destinations]]

\* NewForwarder: the capacity of the semaphore channel.
NewForwarderCap(concurrency) ==
    IF concurrency <= 0 THEN DefaultConcurrency ELSE concurrency

(***************************************************************************)
(* Destination URLs.  "://bad" does not parse; the relay URLs address the  *)
(* listen paths of this server, the external URL an endpoint outside it.   *)
(***************************************************************************)
UrlA == "http://relay/a"
UrlB == "http://relay/b"
UrlExt == "http://ext/hook"
UrlBad == "://bad"

urlParses(u) == u # UrlBad

urlPath(u) ==
    CASE u = UrlA -> "/a"
      [] u = UrlB -> "/b"
      [] OTHER -> "/hook"

urlOnServer(u) == u \in {UrlA, UrlB}

\* cleanPath of server.New, on listen paths that ResolveRelays produced.
cleanPath(p0) ==
    LET p == TrimSpaceName(p0)
    IN  IF p = "" THEN "/"
        ELSE LET q == pathClean(IF HasSlashPrefix(p) THEN p ELSE AddSlash(p))
             IN  IF q = "." THEN "/" ELSE q

\* net/http validMethod, after NewRequestWithContext defaulted "" to GET.
validMethod(m) == m # <<>> /\ \A i \in DOMAIN m : m[i] \notin {" ", ","}

(***************************************************************************)
(* The configurations the model starts from.                               *)
(***************************************************************************)
postSp == <<" ", "p", "o", "s", "t">>
TraceOverride == <<<<"X-WebhookRelay-Trace", <<"x">>>>>>

FanOutConfig(n) ==
    [Server |-> ServerConfig(":8099", n),
     Relays |-> <<RelayConfig("fan", "/a", <<>>,
                     <<DestinationConfig(UrlExt, <<>>, NoHeaders),
                       DestinationConfig(UrlExt, <<"p", "u", "t">>, NoHeaders)>>)>>]

CycleConfig(n) ==
    [Server |-> ServerConfig(":8099", n),
     Relays |-> <<RelayConfig("one", "/a", <<postSp>>,
                     <<DestinationConfig(UrlB, <<>>, NoHeaders)>>),
                  RelayConfig("two", "/b", <<POST, GET>>,
                     <<DestinationConfig(UrlA, <<>>, NoHeaders)>>)>>]

OverrideCycleConfig(n) ==
    [Server |-> ServerConfig(":8099", n),
     Relays |-> <<RelayConfig("one", "/a", <<POST>>,
                     <<DestinationConfig(UrlB, <<>>, TraceOverride)>>),
                  RelayConfig("two", "/b", <<POST>>,
                     <<DestinationConfig(UrlA, <<>>, TraceOverride)>>)>>]

SelfConfig(n) ==
    [Server |-> ServerConfig(":8099", n),
     Relays |-> <<RelayConfig("self", "/a", <<POST, GET>>,
                     <<DestinationConfig(UrlA, <<>>, TraceOverride),
                       DestinationConfig(UrlBad, <<>>, NoHeaders)>>)>>]

SingleConfig(listenPath, methods) ==
    [Server |-> ServerConfig(":8099", 0),
     Relays |-> <<RelayConfig("single", listenPath, methods,
                     <<DestinationConfig(UrlExt, <<>>, NoHeaders)>>)>>]

\* Destinations whose static headers name the host, a hop-by-hop header, the
\* request-ID header and the trace header, next to one without static headers.
HostOverride == <<<<"HOST", <<"e">>>>, <<"connection", <<"o">>>>>>
CorrelationOverride ==
    <<<<"x-webhookrelay-request-id", <<"z">>>>, <<"X-WebhookRelay-Trace", <<"x">>>>>>

OverridesConfig ==
    [Server |-> ServerConfig(":8099", 0),
     Relays |-> <<RelayConfig("over", "/a", <<>>,
                     <<DestinationConfig(UrlExt, <<>>, HostOverride),
                       DestinationConfig(UrlExt, <<>>, CorrelationOverride)>>),
                  RelayConfig("plain", "/b", <<>>,
                     <<DestinationConfig(UrlExt, <<>>, NoHeaders)>>)>>]

\* The relays a configuration file may declare: a listen path that is absent,
\* blank, without or with the leading slash, with a trailing slash; methods
\* that are absent, padded, or hold a blank entry; no or one destination.
DeclaredPaths == {"", " ", "a", "/a", "/a/", "/b"}
DeclaredMethods == {<<>>, <<postSp>>, <<POST, <<" ">>>>}
DeclaredDestinations == {<<>>, <<DestinationConfig(UrlExt, <<>>, NoHeaders)>>}

DeclaredRelays ==
    {RelayConfig("r", lp, ms, ds) :
        lp \in DeclaredPaths, ms \in DeclaredMethods, ds \in DeclaredDestinations}

ConfigInputs ==
    {[Server |-> ServerConfig(":8099", 0), Relays |-> rs] :
        rs \in UNION {[1..n -> DeclaredRelays] : n \in 1..MaxRelays}}

\* The configurations of the specifications.
RawConfigs == {FanOutConfig(1), CycleConfig(1), SelfConfig(0)}
InboundConfigs == {SingleConfig("/a", <<postSp>>), SingleConfig("/b", <<POST, GET>>)}
ChainConfigs == {CycleConfig(1), OverrideCycleConfig(2), SelfConfig(1)}
HeaderConfigs == {OverridesConfig}
ShutdownConfigs == {FanOutConfig(1)}
BurstConfigs == {FanOutConfig(1), FanOutConfig(0), FanOutConfig(-1)}

(***************************************************************************)
(* State                                                                   *)
(***************************************************************************)
VARIABLES
    relays,     \* server.Config.Relays: the resolved relays, fixed at startup
    semCap,     \* cap(f.sem)
    sem,        \* len(f.sem)
    calls,      \* the inbound calls (and direct ForwardAsync invocations)
    attempts,   \* the forwardOne goroutines
    boot,       \* main(): how far the startup got, and the configuration read
    tp          \* an evaluation of the trace protocol functions

vars == <<relays, semCap, sem, calls, attempts, boot, tp>>

\* No evaluation of the trace protocol functions under way.
NoEval == [trace |-> <<>>, id |-> <<>>, op |-> "none", out |-> <<>>, depth |-> 0]

NoReq == [method |-> <<>>, url |-> "", header |-> EmptyHeader, body |-> <<>>,
          host |-> ""]

Calls == DOMAIN calls
Attempts == DOMAIN attempts

AttemptsOf(c) == {a \in Attempts : attempts[a].call = c}
Holding == {a \in Attempts : attempts[a].pc \in {"acquired", "inflight"}}
HttpCalls == {c \in Calls : calls[c].kind = "http"}
ExternalCalls == {c \in HttpCalls : calls[c].from = 0}
ApiCalls == {c \in Calls : calls[c].kind = "api"}

(***************************************************************************)
(* Init: main() loaded and resolved a configuration, built the Forwarder   *)
(* and the server.                                                         *)
(***************************************************************************)
Started(raw) ==
    /\ LoadOK(raw)
    /\ LET cfg == validateAndDefault(raw)
       IN  /\ relays = ResolveRelays(cfg, [i \in DOMAIN cfg.Relays |-> "t1"])
           /\ semCap = NewForwarderCap(cfg.Server.Concurrency)
    /\ sem = 0
    /\ calls = <<>>
    /\ attempts = <<>>
    /\ boot = [pc |-> "serving", raw |-> raw, cfg |-> validateAndDefault(raw),
               err |-> FALSE]
    /\ tp = NoEval

Init == \E raw \in RawConfigs : Started(raw)
InitInbound == \E raw \in InboundConfigs : Started(raw)
InitChain == \E raw \in ChainConfigs : Started(raw)
InitHeaders == \E raw \in HeaderConfigs : Started(raw)
InitShutdown == \E raw \in ShutdownConfigs : Started(raw)
InitBurst == \E raw \in BurstConfigs : Started(raw)

\* Nothing resolved, built or served: before main() got there, or outside
\* any run of it.
Idle ==
    /\ relays = <<>>
    /\ semCap = 0
    /\ sem = 0
    /\ calls = <<>>
    /\ attempts = <<>>


(***************************************************************************)
(* internal/server: handleRelay                                            *)
(***************************************************************************)
RECURSIVE methodInList(_, _)
methodInList(m, allowed) ==
    IF allowed = <<>> THEN FALSE
    ELSE IF m = ToUpper(TrimSpace(Head(allowed))) THEN TRUE
    ELSE methodInList(m, Tail(allowed))

\* A method check with the test of the empty list inverted.
methodAllowedInverted(method, allowed) ==
    IF Len(allowed) # 0 THEN TRUE
    ELSE methodInList(ToUpper(TrimSpace(method)), allowed)

methodAllowed(method, allowed) ==
    IF Len(allowed) = 0 THEN TRUE
    ELSE methodInList(ToUpper(TrimSpace(method)), allowed)

\* newRequestID: the token of call c, or "" when the random source failed
\* (handleRelay drops the error).
RequestToken(c) ==
    CASE c = 1 -> <<"r", "1">>
      [] c = 2 -> <<"r", "2">>
      [] c = 3 -> <<"r", "3">>
      [] c = 4 -> <<"r", "4">>
      [] OTHER -> <<"r", "5">>

newRequestID(c, randOK) == IF randOK THEN RequestToken(c) ELSE <<>>

\* A handler that checks for the loop before it checks the method.
handleRelayExitLoopFirst(relay, req) ==
    IF relay.ID # <<>> /\ traceContains(HeaderGet(req.header, HeaderTrace), relay.ID)
    THEN "self_loop"
    ELSE IF ~methodAllowed(req.method, relay.Methods) THEN "method"
    ELSE IF ~req.readOK THEN "read_failed"
    ELSE "forward"

\* Which of the four exits of handleRelay a request takes.
handleRelayExit(relay, req) ==
    IF ~methodAllowed(req.method, relay.Methods) THEN "method"
    ELSE IF relay.ID # <<>> /\ traceContains(HeaderGet(req.header, HeaderTrace), relay.ID)
         THEN "self_loop"
    ELSE IF ~req.readOK THEN "read_failed"
    ELSE "forward"

\* The response of the three early returns.
earlyStatus(exit) ==
    CASE exit = "method" -> StatusMethodNotAllowed
      [] exit = "self_loop" -> StatusAccepted
      [] OTHER -> StatusBadRequest

earlyHeader(exit) ==
    IF exit = "self_loop" THEN HeaderSet(EmptyHeader, HeaderDropped, SelfLoop)
    ELSE EmptyHeader

\* Whether the handler read the request body to its end (EOF or the read
\* error) before it returned: io.Copy to io.Discard, or io.ReadAll.
bodyDrained(exit) == exit # "method"

(***************************************************************************)
(* internal/relay: ForwardAsync starts one goroutine per destination.      *)
(***************************************************************************)
NewAttempt(c, i, ctxDone) ==
    [call |-> c, dest |-> i, pc |-> "select", outReq |-> NoReq, netCalls |-> 0,
     outcome |-> "none", hop |-> 0, delivered |-> FALSE, early |-> ctxDone,
     acquired |-> 0, released |-> 0]

ForwardAsync(c, destinations, ctxDone) ==
    [i \in 1..Len(destinations) |-> NewAttempt(c, i, ctxDone)]

\* handleRelay up to the return of ForwardAsync (or to one of its early
\* returns), for a request that reached relay r: the call it leaves behind
\* and the goroutines it started.
ServedCall(r, req, from) ==
    LET c == Len(calls) + 1
        exit == handleRelayExit(relays[r], req)
        base == [kind |-> "http", relay |-> r, method |-> req.method,
                 header |-> req.header, wire |-> req.wire, readOK |-> req.readOK,
                 from |-> from, exit |-> exit, ctxDone |-> FALSE,
                 drained |-> bodyDrained(exit)]
    IN  IF exit = "forward"
        THEN base @@ [pc |-> "dispatched", status |-> 0, respHeader |-> EmptyHeader,
                      body |-> req.wire, reqID |-> newRequestID(c, req.randOK),
                      dispatches |-> 1]
        ELSE base @@ [pc |-> "done", status |-> earlyStatus(exit),
                      respHeader |-> earlyHeader(exit), body |-> <<>>,
                      reqID |-> <<>>, dispatches |-> 0]

ServedAttempts(r, req) ==
    IF handleRelayExit(relays[r], req) = "forward"
    THEN ForwardAsync(Len(calls) + 1, relays[r].Destinations, FALSE)
    ELSE <<>>

\* The requests that callers outside the system send.
Request(m, t, b, ok, rnd) ==
    [method |-> m,
     header |-> IF t = <<>> THEN EmptyHeader ELSE HeaderSet(EmptyHeader, HeaderTrace, t),
     wire |-> b, readOK |-> ok, randOK |-> rnd]

\* The requests of the inbound specification: a method in lower case and one
\* that a relay may not allow, a trace that is absent or names both relays,
\* a body read that succeeds or fails; and a failing random source.
InboundRequests ==
    {Request(m, t, <<"x">>, ok, TRUE) :
        m \in {post, GET}, t \in {<<>>, <<"b", ",", " ", "a">>}, ok \in BOOLEAN}
    \cup {Request(POST, <<"c", ",", " ">>, <<"x">>, TRUE, FALSE)}

\* The requests of the forwarding and chain specifications: two bodies, two
\* methods, a trace that is absent or names a relay outside the system.
ForwardRequests ==
    {Request(POST, <<>>, <<"y">>, TRUE, TRUE),
     Request(GET, <<"c", ",", " ">>, <<"x">>, TRUE, TRUE)}

\* The requests of the header specification: the header fields a caller may
\* send, as the server parsed them (field names in canonical form).
WithFields(h, fields) ==
    LET RECURSIVE SetAll(_, _)
        SetAll(hh, fs) ==
            IF fs = <<>> THEN hh
            ELSE SetAll(HeaderAdd(hh, Head(fs)[1], Head(fs)[2]), Tail(fs))
    IN  SetAll(h, fields)

HeaderRequest(fields, rnd) ==
    [method |-> POST, header |-> WithFields(EmptyHeader, fields),
     wire |-> <<"x">>, readOK |-> TRUE, randOK |-> rnd]

HeaderRequests ==
    {HeaderRequest(<<>>, TRUE),
     HeaderRequest(<<>>, FALSE),
     HeaderRequest(<<<<"x-custom", <<"v">>>>>>, TRUE),
     HeaderRequest(<<<<"connection", <<"k">>>>, <<"upgrade", <<"h">>>>,
                     <<"x-custom", <<"v">>>>>>, TRUE),
     HeaderRequest(<<<<"CONNECTION", <<"k">>>>,
                     <<"x-webhookrelay-trace", <<"c", ",", " ", ",", "d">>>>>>, TRUE),
     HeaderRequest(<<<<"x-webhookrelay-request-id", <<"q">>>>,
                     <<"x-webhookrelay-trace", <<" ", "c">>>>>>, TRUE)}

\* An external caller's request reaches relay r.
Receive(r, req) ==
    /\ calls' = Append(calls, ServedCall(r, req, 0))
    /\ attempts' = attempts \o ServedAttempts(r, req)
    /\ UNCHANGED <<boot, tp, relays, semCap, sem>>

\* ForwardAsync has returned to handleRelay: it only starts the goroutines.
\* (The variant waits for them, as a sync.WaitGroup would.)
ForwardAsyncWaited(c) ==
    /\ calls[c].pc = "dispatched"
    /\ \A a \in DOMAIN attempts : attempts[a].call = c => attempts[a].pc = "ended"

ForwardAsyncReturned(c) == calls[c].pc = "dispatched"

\* handleRelay, from the return of ForwardAsync to the written response.
\* (The variant reports a failed destination to the caller.)
responseStatusFromOutcomes(c) ==
    IF \E a \in DOMAIN attempts :
          attempts[a].call = c /\ attempts[a].outcome \in {"timeout", "failed"}
    THEN 502
    ELSE StatusAccepted

responseStatus(c) == StatusAccepted
responseHeader(c) == HeaderSet(EmptyHeader, HeaderRelayRequestID, calls[c].reqID)

Respond(c) ==
    /\ ForwardAsyncReturned(c)
    /\ calls' = [calls EXCEPT ![c].pc = "done",
                              ![c].status = responseStatus(c),
                              ![c].respHeader = responseHeader(c)]
    /\ UNCHANGED <<boot, tp, relays, semCap, sem, attempts>>

(***************************************************************************)
(* A direct ForwardAsync invocation with a context of the caller's own,    *)
(* which the caller may cancel (handleRelay passes context.Background()).  *)
(***************************************************************************)
ApiForward(r, b, done) ==
    /\ LET c == Len(calls) + 1
       IN  /\ calls' = Append(calls,
                  [kind |-> "api", relay |-> r, method |-> POST, header |-> EmptyHeader,
                   wire |-> b, readOK |-> TRUE, from |-> 0, exit |-> "forward",
                   ctxDone |-> done, drained |-> TRUE, pc |-> "done", status |-> 0,
                   respHeader |-> EmptyHeader, body |-> b, reqID |-> RequestToken(c),
                   dispatches |-> 1])
           /\ attempts' = attempts \o ForwardAsync(c, relays[r].Destinations, done)
    /\ UNCHANGED <<boot, tp, relays, semCap, sem>>

Cancel(c) ==
    /\ calls[c].kind = "api"
    /\ ~calls[c].ctxDone
    /\ calls' = [calls EXCEPT ![c].ctxDone = TRUE]
    /\ attempts' = [a \in Attempts |->
                       IF attempts[a].call = c /\ attempts[a].pc = "select"
                       THEN [attempts[a] EXCEPT !.early = TRUE]
                       ELSE attempts[a]]
    /\ UNCHANGED <<boot, tp, relays, semCap, sem>>

(***************************************************************************)
(* internal/relay: forwardOne                                              *)
(***************************************************************************)
DestOf(a) == relays[calls[attempts[a].call].relay].Destinations[attempts[a].dest]
RelayOf(a) == relays[calls[attempts[a].call].relay]

\* The two cases of the select; Go picks among the ready cases at random.
\* (The variant sends without regard to the capacity.)
CanSendAnyway == TRUE

CanSend == sem < semCap

\* (The variant hands the inbound request's context to ForwardAsync: it is
\* done once the handler has returned.)
CtxDoneWithRequest(a) ==
    \/ calls[attempts[a].call].ctxDone
    \/ calls[attempts[a].call].kind = "http" /\ calls[attempts[a].call].pc = "done"

CtxDone(a) == calls[attempts[a].call].ctxDone

Acquire(a) ==
    /\ attempts[a].pc = "select"
    /\ CanSend
    /\ sem' = sem + 1
    /\ attempts' = [attempts EXCEPT ![a].pc = "acquired", ![a].acquired = @ + 1]
    /\ UNCHANGED <<boot, tp, relays, semCap, calls>>

Abandon(a) ==
    /\ attempts[a].pc = "select"
    /\ CtxDone(a)
    /\ attempts' = [attempts EXCEPT ![a].pc = "ended", ![a].outcome = "abandoned"]
    /\ UNCHANGED <<boot, tp, relays, semCap, sem, calls>>

\* The deferred receive from f.sem, run on every return after the send.
\* (The variant returns on a request that cannot be built without it.)
ReleaseOnAfterBuild(outcome) == IF outcome = "build_failed" THEN 0 ELSE 1

\* (Another variant keeps the slot of an attempt that did not succeed.)
ReleaseOnSuccessOnly(outcome) == IF outcome = "success" THEN 1 ELSE 0

ReleaseOn(outcome) == 1

outMethod(a) ==
    IF DestOf(a).Method # <<>> THEN DestOf(a).Method
    ELSE calls[attempts[a].call].method

newRequestFails(method, url) ==
    \/ ~validMethod(IF method = <<>> THEN GET ELSE method)
    \/ ~urlParses(url)

\* bytes.NewReader(body): each attempt reads the captured bytes through a
\* reader of its own.  (The variant shares one reader, which the first
\* destination drains.)
outBodySharedReader(a) ==
    IF attempts[a].dest = 1 THEN calls[attempts[a].call].body ELSE <<>>

outBody(a) == calls[attempts[a].call].body

outHeader(a) ==
    LET c == attempts[a].call
        h1 == copyHeaders(EmptyHeader, calls[c].header)
        h2 == HeaderDel(h1, "Host")
        h3 == applyHeaderOverrides(h2, DestOf(a).Headers)
        id == TrimSpace(RelayOf(a).ID)
        h4 == IF id # <<>>
              THEN HeaderSet(h3, HeaderTrace, appendTrace(HeaderGet(h3, HeaderTrace), id))
              ELSE h3
    IN  HeaderSet(h4, HeaderRequestID, calls[c].reqID)

\* Where an attempt goes after the network call returned.
\* (The variant tries again after an error.)
AfterDoRetry(err) == IF err = "nil" THEN "ended" ELSE "acquired"

AfterDo(err) == "ended"

\* (The variant writes the outbound headers into the header set of the
\* inbound request, as outReq.Header = inbound.Header would.)
BuildInPlace(a) ==
    /\ attempts[a].pc = "acquired"
    /\ IF newRequestFails(outMethod(a), DestOf(a).URL)
       THEN /\ attempts' = [attempts EXCEPT ![a].pc = "ended",
                                            ![a].outcome = "build_failed",
                                            ![a].released = @ + ReleaseOn("build_failed")]
            /\ sem' = sem - ReleaseOn("build_failed")
            /\ calls' = calls
       ELSE /\ attempts' = [attempts EXCEPT
                  ![a].pc = "inflight",
                  ![a].netCalls = @ + 1,
                  ![a].outReq = [method |-> outMethod(a), url |-> DestOf(a).URL,
                                 header |-> outHeader(a), body |-> outBody(a),
                                 host |-> ""]]
            /\ sem' = sem
            /\ calls' = [calls EXCEPT ![attempts[a].call].header = outHeader(a)]
    /\ UNCHANGED <<boot, tp, relays, semCap>>

\* Lines 65-95: build the outbound request and hand it to the client, or
\* return on a request that cannot be built.
Build(a) ==
    /\ attempts[a].pc = "acquired"
    /\ IF newRequestFails(outMethod(a), DestOf(a).URL)
       THEN /\ attempts' = [attempts EXCEPT ![a].pc = "ended",
                                            ![a].outcome = "build_failed",
                                            ![a].released = @ + ReleaseOn("build_failed")]
            /\ sem' = sem - ReleaseOn("build_failed")
       ELSE /\ attempts' = [attempts EXCEPT
                  ![a].pc = "inflight",
                  ![a].netCalls = @ + 1,
                  ![a].outReq = [method |-> outMethod(a), url |-> DestOf(a).URL,
                                 header |-> outHeader(a), body |-> outBody(a),
                                 host |-> ""]]
            /\ sem' = sem
    /\ UNCHANGED <<boot, tp, relays, semCap, calls>>

\* The relay of this server that a URL addresses, if any.
RouteOf(u) ==
    {r \in DOMAIN relays : urlOnServer(u) /\ cleanPath(relays[r].ListenPath) = urlPath(u)}

\* The request that the relay addressed by an attempt's URL receives.
HopRequest(a) ==
    [method |-> attempts[a].outReq.method, header |-> attempts[a].outReq.header,
     wire |-> attempts[a].outReq.body, readOK |-> TRUE, randOK |-> TRUE]

\* The outbound request of an attempt in flight reaches relay r, whose
\* handler runs up to the return of its ForwardAsync.
Deliver(a, r) ==
    /\ attempts[a].pc = "inflight"
    /\ ~attempts[a].delivered
    /\ r \in RouteOf(attempts[a].outReq.url)
    /\ calls' = Append(calls, ServedCall(r, HopRequest(a), a))
    /\ attempts' = [attempts EXCEPT ![a].delivered = TRUE, ![a].hop = Len(calls) + 1]
                      \o ServedAttempts(r, HopRequest(a))
    /\ UNCHANGED <<boot, tp, relays, semCap, sem>>

\* The per-attempt deadline of context.WithTimeout(parentCtx, f.timeout)
\* passes before the destination answered: client.Do returns.
DeadlineExceeded == [err |-> "deadline", ctxErr |-> "deadline"]

\* A classification without the test for a cancelled context.
classifyNoCancel(err, ctxErr) ==
    IF err = "nil" THEN "success"
    ELSE IF err = "deadline" \/ ctxErr = "deadline" THEN "timeout"
    ELSE "failed"

\* Lines 97-112: the outcome of the network call.
classify(err, ctxErr) ==
    IF err = "nil" THEN "success"
    ELSE IF err = "deadline" \/ ctxErr = "deadline" THEN "timeout"
    ELSE IF err = "canceled" \/ ctxErr = "canceled" THEN "canceled"
    ELSE "failed"

\* What client.Do can return for attempt a, with ctx.Err() at that moment.
DoResults(a) ==
    {e \in [err : {"nil", "deadline", "canceled", "other"},
            ctxErr : {"nil", "deadline", "canceled"}] :
        /\ e.err = "deadline" => e.ctxErr = "deadline"
        /\ e.err = "canceled" => e.ctxErr = "canceled"
        /\ e.ctxErr = "canceled" => CtxDone(a)
        /\ e.err = "nil" =>
              \/ RouteOf(attempts[a].outReq.url) = {}
              \/ attempts[a].delivered /\ calls[attempts[a].hop].pc = "done"}

Complete(a, e) ==
    /\ attempts[a].pc = "inflight"
    /\ e \in DoResults(a)
    /\ LET next == AfterDo(e.err)
       IN  IF next = "ended"
           THEN /\ attempts' = [attempts EXCEPT
                       ![a].pc = "ended",
                       ![a].outcome = classify(e.err, e.ctxErr),
                       ![a].released = @ + ReleaseOn(classify(e.err, e.ctxErr))]
                /\ sem' = sem - ReleaseOn(classify(e.err, e.ctxErr))
           ELSE /\ attempts' = [attempts EXCEPT ![a].pc = next]
                /\ sem' = sem
    /\ UNCHANGED <<boot, tp, relays, semCap, calls>>

AllDoResults == [err : {"nil", "deadline", "canceled", "other"},
                 ctxErr : {"nil", "deadline", "canceled"}]

\* The model has room for a call that starts n goroutines.
Room(n) == Len(calls) < MaxCalls /\ Len(attempts) + n <= MaxAttempts
RoomInbound(n) ==
    Len(calls) < MaxInboundCalls /\ Len(attempts) + n <= MaxInboundAttempts
RoomChain(n) ==
    Len(calls) < MaxChainCalls /\ Len(attempts) + n <= MaxChainAttempts

\* The forwarding specification: calls to the relays, relay-to-relay
\* deliveries and direct ForwardAsync invocations share one Forwarder.
Next ==
    \/ \E r \in DOMAIN relays, req \in ForwardRequests :
          /\ Cardinality(ExternalCalls) < MaxHttp
          /\ Room(Len(ServedAttempts(r, req)))
          /\ Receive(r, req)
    \/ \E c \in Calls : Respond(c)
    \/ \E r \in DOMAIN relays, done \in BOOLEAN :
          /\ Cardinality(ApiCalls) < MaxApi
          /\ Room(Len(relays[r].Destinations))
          /\ ApiForward(r, <<"x">>, done)
    \/ \E c \in Calls : Cancel(c)
    \/ \E a \in Attempts : Acquire(a)
    \/ \E a \in Attempts : Abandon(a)
    \/ \E a \in Attempts : Build(a)
    \/ \E a \in Attempts, r \in DOMAIN relays :
          /\ attempts[a].pc = "inflight"
          /\ Room(Len(ServedAttempts(r, HopRequest(a))))
          /\ Deliver(a, r)
    \/ \E a \in Attempts, e \in AllDoResults : Complete(a, e)

Spec == Init /\ [][Next]_vars

\* The inbound specification: every request shape, destinations that behave
\* in every way, no relay-to-relay delivery.
NextInbound ==
    \/ \E r \in DOMAIN relays, req \in InboundRequests :
          /\ RoomInbound(Len(ServedAttempts(r, req)))
          /\ Receive(r, req)
    \/ \E c \in Calls : Respond(c)
    \/ \E a \in Attempts : Acquire(a)
    \/ \E a \in Attempts : Build(a)
    \/ \E a \in Attempts, e \in AllDoResults : Complete(a, e)

SpecInbound == InitInbound /\ [][NextInbound]_vars

\* The chain specification: one external request and the chain of
\* relay-to-relay deliveries it starts.
NextChain ==
    \/ \E r \in DOMAIN relays, req \in ForwardRequests :
          /\ ExternalCalls = {}
          /\ RoomChain(Len(ServedAttempts(r, req)))
          /\ Receive(r, req)
    \/ \E c \in Calls : Respond(c)
    \/ \E a \in Attempts : Acquire(a)
    \/ \E a \in Attempts : Build(a)
    \/ \E a \in Attempts, r \in DOMAIN relays :
          /\ attempts[a].pc = "inflight"
          /\ RoomChain(Len(ServedAttempts(r, HopRequest(a))))
          /\ Deliver(a, r)
    \/ \E a \in Attempts, e \in AllDoResults : Complete(a, e)

SpecChain == InitChain /\ [][NextChain]_vars

\* The header specification: requests with header fields of every kind,
\* forwarded to destinations with and without static headers.
RoomHeaders(n) ==
    Len(calls) < MaxHeaderCalls /\ Len(attempts) + n <= MaxHeaderAttempts

NextHeaders ==
    \/ \E r \in DOMAIN relays, req \in HeaderRequests :
          /\ RoomHeaders(Len(ServedAttempts(r, req)))
          /\ Receive(r, req)
    \/ \E c \in Calls : Respond(c)
    \/ \E a \in Attempts : Acquire(a)
    \/ \E a \in Attempts : Build(a)
    \/ \E a \in Attempts, e \in AllDoResults : Complete(a, e)

SpecHeaders == InitHeaders /\ [][NextHeaders]_vars

(***************************************************************************)
(* The startup of main(), step by step, from a configuration file of any   *)
(* kind to a server that answers, or to the exit of the process.           *)
(***************************************************************************)
InitConfig ==
    /\ Idle
    /\ tp = NoEval
    /\ \E raw \in ConfigInputs :
          boot = [pc |-> "load", raw |-> raw, cfg |-> NoConfig, err |-> FALSE]

\* main.go 31-35: config.Load, and os.Exit(1) on its error.
LoadConfig ==
    /\ boot.pc = "load"
    /\ boot' = [boot EXCEPT !.pc = IF Load(boot.raw).err THEN "exited" ELSE "resolve",
                            !.cfg = Load(boot.raw).cfg,
                            !.err = Load(boot.raw).err]
    /\ UNCHANGED <<relays, semCap, sem, calls, attempts, tp>>

\* The random tokens that randomToken draws for the relays.
Tokens == {"t1", "t2"}

\* main.go 37-47: config.ResolveRelays and relay.NewForwarder.
Resolve(toks) ==
    /\ boot.pc = "resolve"
    /\ relays' = ResolveRelays(boot.cfg, toks)
    /\ semCap' = NewForwarderCap(boot.cfg.Server.Concurrency)
    /\ boot' = [boot EXCEPT !.pc = "new"]
    /\ UNCHANGED <<sem, calls, attempts, tp>>

\* main.go 37-41: randomToken failed for a relay without listen path.
ResolveFails ==
    /\ boot.pc = "resolve"
    /\ \E i \in DOMAIN boot.cfg.Relays : TrimSpaceName(boot.cfg.Relays[i].ListenPath) = ""
    /\ boot' = [boot EXCEPT !.pc = "exited", !.err = TRUE]
    /\ UNCHANGED <<relays, semCap, sem, calls, attempts, tp>>

\* server.New registers one pattern per relay; ServeMux panics on a pattern
\* registered twice.
NewPanics(rs) ==
    \E i \in DOMAIN rs, j \in DOMAIN rs :
        i # j /\ cleanPath(rs[i].ListenPath) = cleanPath(rs[j].ListenPath)

NewServer ==
    /\ boot.pc = "new"
    /\ boot' = [boot EXCEPT !.pc = IF NewPanics(relays) THEN "exited" ELSE "serving"]
    /\ UNCHANGED <<relays, semCap, sem, calls, attempts, tp>>

\* The requests the started server receives: the ones above, and a POST
\* and a PUT whose method the caller wrote in another way.
ConfigRequests ==
    ForwardRequests
    \cup {Request(post, <<>>, <<"x">>, TRUE, TRUE),
          Request(PUT, <<>>, <<"x">>, TRUE, TRUE)}

NextConfig ==
    \/ LoadConfig
    \/ \E toks \in [DOMAIN boot.cfg.Relays -> Tokens] : Resolve(toks)
    \/ ResolveFails
    \/ NewServer
    \/ \E r \in DOMAIN relays, req \in ConfigRequests :
          /\ boot.pc = "serving"
          /\ Len(calls) < MaxConfigCalls
          /\ Receive(r, req)
    \/ \E c \in Calls : Respond(c)

SpecConfig == InitConfig /\ [][NextConfig]_vars

(***************************************************************************)
(* Shutdown: Run waits for a termination signal, then for srv.Shutdown,    *)
(* and main returns.  The goroutines of the Forwarder are told nothing:    *)
(* their context is context.Background().                                  *)
(***************************************************************************)
\* Run, lines 77-82: the signal arrives; Shutdown closes the listener and
\* waits for the handlers that are running.
Signal ==
    /\ boot.pc = "serving"
    /\ boot' = [boot EXCEPT !.pc = "shutdown"]
    /\ UNCHANGED <<relays, semCap, sem, calls, attempts, tp>>

\* Shutdown returns, when every handler has returned or after its ten
\* seconds; Run and main return and the process ends where it stands.
ShutdownReturns ==
    /\ boot.pc = "shutdown"
    /\ boot' = [boot EXCEPT !.pc = "exited"]
    /\ UNCHANGED <<relays, semCap, sem, calls, attempts, tp>>

\* The shutdown specification: a burst on a Forwarder of capacity one, and
\* the signal at any moment.  (The second case of the select in forwardOne
\* has no step here: no context of handleRelay's calls is ever done.)
NextShutdown ==
    \/ \E r \in DOMAIN relays, req \in ForwardRequests :
          /\ boot.pc = "serving"
          /\ Len(calls) < MaxShutdownCalls
          /\ Receive(r, req)
    \/ \E c \in Calls : boot.pc # "exited" /\ Respond(c)
    \/ \E a \in Attempts : boot.pc # "exited" /\ Acquire(a)
    \/ \E a \in Attempts : boot.pc # "exited" /\ Build(a)
    \/ \E a \in Attempts, e \in AllDoResults : boot.pc # "exited" /\ Complete(a, e)
    \/ Signal
    \/ ShutdownReturns

SpecShutdown == InitShutdown /\ [][NextShutdown]_vars

(***************************************************************************)
(* Admission under a fair scheduler: a burst of attempts on one Forwarder, *)
(* started by a call to a relay or by a direct ForwardAsync invocation     *)
(* whose context the caller may cancel.                                    *)
(***************************************************************************)
RoomBurst(n) ==
    Len(calls) < MaxBurstCalls /\ Len(attempts) + n <= MaxBurstAttempts

NextBurst ==
    \/ \E r \in DOMAIN relays, req \in ForwardRequests :
          /\ RoomBurst(Len(ServedAttempts(r, req)))
          /\ Receive(r, req)
    \/ \E c \in Calls : Respond(c)
    \/ \E r \in DOMAIN relays, done \in BOOLEAN :
          /\ RoomBurst(Len(relays[r].Destinations))
          /\ ApiForward(r, <<"x">>, done)
    \/ \E c \in Calls : Cancel(c)
    \/ \E a \in Attempts : Acquire(a)
    \/ \E a \in Attempts : Abandon(a)
    \/ \E a \in Attempts : Build(a)
    \/ \E a \in Attempts, e \in AllDoResults : Complete(a, e)

\* The goroutine of attempt a is scheduled.  A goroutine blocked in the send
\* on f.sem waits in the channel's queue of senders, which a receive serves
\* first come first served: an attempt for which a slot is free again and
\* again gets one.  Every other step is taken once it can be taken, and the
\* network call of an attempt returns at the latest at its deadline.
FairAttempt(a) ==
    /\ SF_vars(a \in Attempts /\ Acquire(a))
    /\ WF_vars(a \in Attempts /\ Abandon(a))
    /\ WF_vars(a \in Attempts /\ Build(a))
    /\ WF_vars(a \in Attempts /\ Complete(a, DeadlineExceeded))

SpecBurst ==
    /\ InitBurst
    /\ [][NextBurst]_vars
    /\ \A a \in 1..MaxBurstAttempts : FairAttempt(a)

(***************************************************************************)
(* The trace protocol on its own: traceContains and appendTrace applied to *)
(* every short string over a relay ID, another ID, the comma and the       *)
(* blank, and to the result of an earlier appendTrace.                     *)
(***************************************************************************)
TraceAlphabet == {"a", "b", ",", " "}

TraceInputs ==
    UNION {[1..n -> TraceAlphabet] : n \in 0..MaxTraceLen}
    \cup {<<"a", ",", "b", ",", "c">>}

IDInputs == {<<>>, <<" ">>, <<"a">>, <<"b">>, <<" ", "b", " ">>}

InitTrace ==
    /\ Idle
    /\ boot = [pc |-> "none", raw |-> NoConfig, cfg |-> NoConfig, err |-> FALSE]
    /\ \E t \in TraceInputs, i \in IDInputs :
          tp = [trace |-> t, id |-> i, op |-> "args", out |-> <<>>, depth |-> 0]

\* traceContains(tp.trace, tp.id)
EvalContains ==
    /\ tp.op = "args"
    /\ tp' = [tp EXCEPT !.op = "contains", !.out = traceContains(tp.trace, tp.id)]
    /\ UNCHANGED <<relays, semCap, sem, calls, attempts, boot>>

\* appendTrace(tp.trace, tp.id)
EvalAppend ==
    /\ tp.op = "args"
    /\ tp' = [tp EXCEPT !.op = "append", !.out = appendTrace(tp.trace, tp.id),
                        !.depth = 1]
    /\ UNCHANGED <<relays, semCap, sem, calls, attempts, boot>>

\* appendTrace(previous result, id): the next hop of a chain.
EvalAppendAgain(id) ==
    /\ tp.op = "append"
    /\ tp.depth < MaxAppends
    /\ tp' = [trace |-> tp.out, id |-> id, op |-> "append",
              out |-> appendTrace(tp.out, id), depth |-> tp.depth + 1]
    /\ UNCHANGED <<relays, semCap, sem, calls, attempts, boot>>

\* The IDs of the relays that receive a forwarded request: the ones above,
\* one that no short trace names, and a string with a comma.
CheckInputs == IDInputs \cup {<<"c">>, <<"a", ",", "b">>}

\* traceContains(previous result, x): the loop check of the relay with ID x
\* on the header that appendTrace built, next to the same check on the
\* header before the append.
EvalContainsAfter(x) ==
    /\ tp.op = "append"
    /\ tp' = [tp EXCEPT !.op = "check",
                        !.out = [appended |-> tp.out, x |-> x,
                                 after |-> traceContains(tp.out, x),
                                 before |-> traceContains(tp.trace, x)]]
    /\ UNCHANGED <<relays, semCap, sem, calls, attempts, boot>>

NextTrace ==
    \/ EvalContains
    \/ EvalAppend
    \/ \E id \in IDInputs : EvalAppendAgain(id)
    \/ \E x \in CheckInputs : EvalContainsAfter(x)

SpecTrace == InitTrace /\ [][NextTrace]_vars

TypeOK ==
    /\ sem \in 0..semCap
    /\ \A c \in Calls : calls[c].pc \in {"dispatched", "done"}
    /\ \A a \in Attempts : attempts[a].pc \in {"select", "acquired", "inflight", "ended"}

(***************************************************************************)
(* Properties                                                              *)
(***************************************************************************)
Ended(a) == attempts[a].pc = "ended"
Queued(a) == attempts[a].pc = "select"
CallsHolding == {attempts[a].call : a \in Holding}

\* The entries of a trace header value: its comma-separated segments, trimmed.
Entries(trace) == {TrimSpace(Split(trace)[i]) : i \in DOMAIN Split(trace)}

\* The value of the trace header that a call's request carried.
InboundTrace(c) == HeaderGet(calls[c].header, HeaderTrace)

AllowedSet(r) ==
    {ToUpper(TrimSpace(relays[r].Methods[i])) : i \in DOMAIN relays[r].Methods}

MethodInSet(c) == ToUpper(TrimSpace(calls[c].method)) \in AllowedSet(calls[c].relay)

\* C1: in every reachable state the number of attempts that hold an admission
\* slot (acquired and not yet ended) is at most the capacity the Forwarder was
\* built with, whatever the number of calls, relays and destinations.
C1_InFlightWithinCapacity == Cardinality(Holding) <= semCap

\* A burst larger than the capacity: every slot taken, attempts of two
\* different calls alive, and at least one attempt still waiting.
C1_Witness ==
    /\ Cardinality(Holding) = semCap
    /\ \E a \in Attempts : Queued(a)
    /\ Cardinality({attempts[a].call : a \in Attempts}) >= 2
    /\ Len(attempts) > semCap

\* C2: loop prevention makes every forwarding chain finite: a relay that has
\* already forwarded a request of a chain (and so appended its ID to the
\* trace) makes no destination attempt when the chain comes back to it, so
\* no chain is forwarded twice by the same relay.
RECURSIVE Forwarders(_)
Forwarders(c) ==
    IF calls[c].from = 0 THEN {}
    ELSE LET p == attempts[calls[c].from].call
         IN  {calls[p].relay} \cup Forwarders(p)

C2_NoRelayForwardsAChainTwice ==
    \A c \in HttpCalls :
        calls[c].relay \in Forwarders(c) => AttemptsOf(c) = {}

\* C3 as stated: a request whose trace header contains the relay's own
\* non-empty ID gets 202 with the drop-reason header, its body is read to the
\* end, and no destination attempt is made.
OwnIDInTrace(c) ==
    /\ relays[calls[c].relay].ID # <<>>
    /\ relays[calls[c].relay].ID \in Entries(InboundTrace(c))

SelfLoopResponse(c) ==
    /\ calls[c].pc = "done"
    /\ calls[c].status = StatusAccepted
    /\ CanonicalHeaderKey(HeaderDropped) \in DOMAIN calls[c].respHeader
    /\ HeaderGet(calls[c].respHeader, HeaderDropped) = SelfLoop
    /\ calls[c].drained
    /\ AttemptsOf(c) = {}

C3_Original ==
    \A c \in HttpCalls : OwnIDInTrace(c) => SelfLoopResponse(c)

\* C3, amended: the same for a request whose method the relay allows (the
\* method check comes first and answers 405); in every case no destination
\* attempt is made.
C3_SelfLoopDropped ==
    \A c \in HttpCalls :
        OwnIDInTrace(c) =>
            /\ AttemptsOf(c) = {}
            /\ MethodInSet(c) => SelfLoopResponse(c)

C3_Witness ==
    \E c \in HttpCalls :
        /\ InboundTrace(c) = <<"b", ",", " ", "a">>
        /\ relays[calls[c].relay].ID = <<"a">>
        /\ calls[c].method = post
        /\ ~calls[c].readOK
        /\ SelfLoopResponse(c)

\* C4: a relay with a non-empty allowed-method set answers 405 to a request
\* whose method, trimmed and compared without regard to case, is not in the
\* set, and makes no destination attempt for it.
C4_DisallowedMethodRejected ==
    \A c \in HttpCalls :
        (Len(relays[calls[c].relay].Methods) # 0 /\ ~MethodInSet(c)) =>
            /\ calls[c].pc = "done"
            /\ calls[c].status = StatusMethodNotAllowed
            /\ AttemptsOf(c) = {}

C4_Witness ==
    \E c \in HttpCalls :
        /\ calls[c].method = GET
        /\ relays[calls[c].relay].Methods = <<POST>>
        /\ calls[c].status = StatusMethodNotAllowed
        /\ \E d \in HttpCalls :
              /\ calls[d].method = post
              /\ calls[d].status = StatusAccepted
              /\ AttemptsOf(d) # {}

\* C5: once ForwardAsync has been called the handler can always go on to
\* write its response: it waits for no admission slot and no destination.
C5_ResponseNeverWaits ==
    \A c \in HttpCalls : calls[c].pc = "dispatched" => ENABLED Respond(c)

\* The 202 is written while all attempts of the call are queued and every
\* slot is held by attempts of other calls.
C5_Witness ==
    \E c \in HttpCalls :
        /\ calls[c].pc = "done"
        /\ calls[c].status = StatusAccepted
        /\ AttemptsOf(c) # {}
        /\ \A a \in AttemptsOf(c) : Queued(a)
        /\ sem = semCap
        /\ c \notin CallsHolding

\* C6: the body of every outbound request is the body of the inbound request
\* it forwards, byte for byte, for every destination of the call.
C6_BodyIdentical ==
    \A a \in Attempts :
        attempts[a].netCalls > 0 => attempts[a].outReq.body = calls[attempts[a].call].wire

C6_Witness ==
    \E c \in HttpCalls :
        /\ calls[c].wire = <<"y">>
        /\ Cardinality(AttemptsOf(c)) = 2
        /\ \A a \in AttemptsOf(c) : attempts[a].netCalls = 1 /\ attempts[a].outReq.body = <<"y">>

\* C7: the occupied slots are exactly the attempts between acquisition and
\* end; an attempt that ended released as many slots as it acquired (one, or
\* none when it was abandoned), on every exit path; no attempt running means
\* no slot occupied.
C7_SlotAccounting ==
    /\ sem = Cardinality(Holding)
    /\ \A a \in Attempts :
          /\ Ended(a) => attempts[a].released = attempts[a].acquired
          /\ ~Ended(a) => attempts[a].released = 0
          /\ attempts[a].outcome = "abandoned" => attempts[a].acquired = 0
          /\ (Ended(a) /\ attempts[a].outcome # "abandoned") => attempts[a].acquired = 1
    /\ (\A a \in Attempts : Ended(a) \/ Queued(a)) => sem = 0

C7_Witness ==
    /\ sem = 0
    /\ \E a \in Attempts : attempts[a].outcome = "build_failed" /\ attempts[a].released = 1
    /\ \E a \in Attempts : attempts[a].outcome = "abandoned" /\ attempts[a].released = 0

\* C8: an attempt whose governing context was cancelled before it acquired a
\* slot never acquires one and never makes a network call.
C8_CancelledBeforeAcquireAbandons ==
    \A a \in Attempts :
        attempts[a].early => attempts[a].acquired = 0 /\ attempts[a].netCalls = 0

\* C9: a dispatched call has exactly one attempt per entry of its relay's
\* destination list, and no attempt makes more than one network call.
C9_OneAttemptOneCall ==
    /\ \A c \in Calls :
          calls[c].dispatches > 0 =>
              /\ calls[c].dispatches = 1
              /\ \A i \in DOMAIN relays[calls[c].relay].Destinations :
                    Cardinality({a \in AttemptsOf(c) : attempts[a].dest = i}) = 1
              /\ \A a \in AttemptsOf(c) :
                    attempts[a].dest \in DOMAIN relays[calls[c].relay].Destinations
    /\ \A a \in Attempts : attempts[a].netCalls <= 1

C9_Witness ==
    \E c \in HttpCalls :
        /\ Cardinality(AttemptsOf(c)) = 2
        /\ \E a \in AttemptsOf(c) : attempts[a].outcome = "timeout" /\ attempts[a].netCalls = 1
        /\ \E a \in AttemptsOf(c) : attempts[a].outcome = "failed" /\ attempts[a].netCalls = 1

\* C10: two calls that bring the same request to the same relay get the same
\* status and the same response headers present, however their destinations
\* behave.
SameRequest(c, d) ==
    /\ calls[c].relay = calls[d].relay
    /\ calls[c].method = calls[d].method
    /\ calls[c].header = calls[d].header
    /\ calls[c].wire = calls[d].wire
    /\ calls[c].readOK = calls[d].readOK

C10_ResponseIndependentOfDestinations ==
    \A c \in HttpCalls, d \in HttpCalls :
        (SameRequest(c, d) /\ calls[c].pc = "done" /\ calls[d].pc = "done") =>
            /\ calls[c].status = calls[d].status
            /\ DOMAIN calls[c].respHeader = DOMAIN calls[d].respHeader

C10_Witness ==
    \E c \in HttpCalls, d \in HttpCalls :
        /\ c # d
        /\ SameRequest(c, d)
        /\ calls[c].pc = "done" /\ calls[d].pc = "done"
        /\ calls[c].status = StatusAccepted /\ calls[d].status = StatusAccepted
        /\ \E a \in AttemptsOf(c) : attempts[a].outcome = "success"
        /\ \E a \in AttemptsOf(d) : attempts[a].outcome \in {"timeout", "failed"}

(***************************************************************************)
(* The trace protocol, stated without the functions of the program: the    *)
(* segments of a string by the positions of its commas, and a string       *)
(* without its surrounding blanks by the positions of its other characters.*)
(***************************************************************************)
Strip(s) ==
    LET solid == {i \in DOMAIN s : s[i] # " "}
    IN  IF solid = {} THEN <<>>
        ELSE SubSeq(s, CHOOSE i \in solid : \A j \in solid : i <= j,
                       CHOOSE i \in solid : \A j \in solid : j <= i)

CommaPos(s) == {i \in DOMAIN s : s[i] = ","}

\* The position of the k-th comma; 0 before the first, Len + 1 after the last.
CommaAt(s, k) ==
    IF k = 0 THEN 0
    ELSE IF k > Cardinality(CommaPos(s)) THEN Len(s) + 1
    ELSE CHOOSE i \in CommaPos(s) : Cardinality({j \in CommaPos(s) : j < i}) = k - 1

SegmentSeq(s) ==
    [k \in 1..(Cardinality(CommaPos(s)) + 1) |->
        Strip(SubSeq(s, CommaAt(s, k - 1) + 1, CommaAt(s, k) - 1))]

\* The entries of a trace: its segments without blanks, the empty ones left out.
EntrySeq(s) == SelectSeq(SegmentSeq(s), LAMBDA e : e # <<>>)

\* "a,b,c" of the entries a, b, c.
RECURSIVE Commas(_)
Commas(es) ==
    IF es = <<>> THEN <<>>
    ELSE IF Len(es) = 1 THEN es[1]
    ELSE es[1] \o <<",">> \o Commas(Tail(es))

\* C12: appending the empty relay ID returns the trace as it was given, for
\* every trace.
C12_AppendEmptyIsIdentity ==
    (tp.op = "append" /\ tp.id = <<>>) => tp.out = tp.trace

\* C13: contains(trace, relayID) is true exactly when the relay ID without its
\* surrounding blanks is non-empty and is one of the segments of the trace
\* without theirs; contains("a,b,c", "b") is true, and contains(trace, "") is
\* false for every trace.
C13_ContainsIsMembership ==
    /\ tp.op = "contains" =>
          /\ tp.out = (/\ Strip(tp.id) # <<>>
                       /\ \E k \in DOMAIN SegmentSeq(tp.trace) :
                             SegmentSeq(tp.trace)[k] = Strip(tp.id))
          /\ tp.id = <<>> => tp.out = FALSE
    /\ traceContains(<<"a", ",", "b", ",", "c">>, <<"b">>)
    /\ ~traceContains(<<"a", ",", "b", ",", "c">>, <<>>)

\* A blank-padded ID found in a padded segment, next to an empty segment.
C13_Witness ==
    /\ tp.op = "contains"
    /\ tp.trace = <<",", " ", "b">>
    /\ tp.id = <<" ", "b", " ">>
    /\ tp.out = TRUE

\* C14 as stated: for a non-empty relay ID, append returns the entries of the
\* trace in their order, followed by the relay ID without its surrounding
\* blanks, joined with commas.
C14_Original ==
    (tp.op = "append" /\ tp.id # <<>>) =>
        tp.out = Commas(EntrySeq(tp.trace) \o <<Strip(tp.id)>>)

\* C14, amended: the same for a relay ID that is non-empty without its
\* surrounding blanks (a blank ID is treated as the empty one); a trace
\* without entries gives just the relay ID, append(append("", "a"), "b") is
\* "a,b", and no entry is removed, moved or merged with an equal one.
C14_AppendKeepsEntriesInOrder ==
    /\ (tp.op = "append" /\ Strip(tp.id) # <<>>) =>
          /\ tp.out = Commas(EntrySeq(tp.trace) \o <<Strip(tp.id)>>)
          /\ EntrySeq(tp.out) = EntrySeq(tp.trace) \o <<Strip(tp.id)>>
          /\ EntrySeq(tp.trace) = <<>> => tp.out = Strip(tp.id)
    /\ appendTrace(appendTrace(<<>>, <<"a">>), <<"b">>) = <<"a", ",", "b">>

\* The second append of a chain, onto a trace that already names the ID.
C14_Witness ==
    /\ tp.op = "append"
    /\ tp.depth = 2
    /\ tp.trace = <<"a", ",", "b">>
    /\ tp.id = <<" ", "b", " ">>
    /\ tp.out = <<"a", ",", "b", ",", "b">>

(***************************************************************************)
(* Outbound requests                                                       *)
(***************************************************************************)
Sent(a) == attempts[a].netCalls > 0
Inbound(a) == calls[attempts[a].call].header
Outbound(a) == attempts[a].outReq.header

HopByHopNames ==
    {"Connection", "Proxy-Connection", "Keep-Alive", "Proxy-Authenticate",
     "Proxy-Authorization", "Te", "Trailer", "Transfer-Encoding", "Upgrade"}

\* The static headers of an attempt's destination that name header k.
OverridesOf(a, k) ==
    {i \in DOMAIN DestOf(a).Headers : CanonicalHeaderKey(DestOf(a).Headers[i][1]) = k}

\* The outbound request addresses the host of the destination URL.
HostOfDestination(a) ==
    /\ attempts[a].outReq.url = DestOf(a).URL
    /\ attempts[a].outReq.host = ""
    /\ CanonicalHeaderKey("Host") \notin DOMAIN Outbound(a)

\* C11 as stated: no hop-by-hop header that the inbound request had is on an
\* outbound request, and a static header named Host never changes the host.
C11_Original ==
    \A a \in Attempts :
        Sent(a) =>
            /\ \A k \in HopByHopNames \cap DOMAIN Inbound(a) : k \notin DOMAIN Outbound(a)
            /\ HostOfDestination(a)

\* C11, amended: no hop-by-hop header is copied from the inbound request: a
\* header of that list is on an outbound request only when the destination
\* declares a static header of that name, and then with that value alone;
\* and a static header named Host, in any casing, never changes the host.
C11_HopByHopNotCopied ==
    \A a \in Attempts :
        Sent(a) =>
            /\ \A k \in HopByHopNames \cap DOMAIN Outbound(a) :
                   \E i \in OverridesOf(a, k) :
                       Outbound(a)[k] = <<DestOf(a).Headers[i][2]>>
            /\ HostOfDestination(a)

\* Connection and Upgrade arrive; the destination declares HOST and
\* connection: Upgrade is gone, Connection is the destination's own, the
\* other header is copied.
C11_Witness ==
    \E a \in Attempts :
        /\ Sent(a)
        /\ {"Connection", "Upgrade", "X-Custom"} \subseteq DOMAIN Inbound(a)
        /\ DestOf(a).Headers = HostOverride
        /\ "Upgrade" \notin DOMAIN Outbound(a)
        /\ Outbound(a)["Connection"] = <<<<"o">>>>
        /\ Outbound(a)["X-Custom"] = <<<<"v">>>>

\* C15: every outbound request of a call carries the request ID of the call,
\* which is the one the response header returns, whatever static headers the
\* destination declares; and when the inbound request has no trace header
\* the outbound trace header is exactly the relay's ID.
C15_SharedRequestID ==
    \A a \in Attempts :
        Sent(a) =>
            LET c == attempts[a].call
            IN  /\ CanonicalHeaderKey(HeaderRequestID) \in DOMAIN Outbound(a)
                /\ Outbound(a)[CanonicalHeaderKey(HeaderRequestID)] = <<calls[c].reqID>>
                /\ (calls[c].kind = "http" /\ calls[c].pc = "done") =>
                       HeaderGet(calls[c].respHeader, HeaderRelayRequestID)
                           = HeaderGet(Outbound(a), HeaderRequestID)
                /\ CanonicalHeaderKey(HeaderTrace) \notin DOMAIN Inbound(a) =>
                       /\ CanonicalHeaderKey(HeaderTrace) \in DOMAIN Outbound(a)
                       /\ Outbound(a)[CanonicalHeaderKey(HeaderTrace)] = <<RelayOf(a).ID>>

\* C19: the entries of the outbound trace are the entries of the inbound
\* trace, in order, followed by the ID of the forwarding relay, whatever
\* static headers the destination declares.
C19_TraceAppendOnly ==
    \A a \in Attempts :
        (Sent(a) /\ RelayOf(a).ID # <<>>) =>
            EntrySeq(HeaderGet(Outbound(a), HeaderTrace))
                = EntrySeq(HeaderGet(Inbound(a), HeaderTrace)) \o <<RelayOf(a).ID>>

WithoutLeadingSlash == {" ", "a"}

\* A relay that validation has to reject.
Rejected(r) ==
    \/ r.ListenPath \in WithoutLeadingSlash
    \/ Len(r.Destinations) = 0
    \/ \E mi \in DOMAIN r.Methods : Strip(r.Methods[mi]) = <<>>

\* C17: a configuration with a relay whose declared listen path is non-empty
\* and lacks the leading slash, or that has no destination, or that has a
\* method entry empty after trimming, makes Load return an error and no
\* configuration; the process exits, and no relay of it is resolved or
\* served.
C17_InvalidConfigRejected ==
    (\E i \in DOMAIN boot.raw.Relays : Rejected(boot.raw.Relays[i])) =>
        /\ boot.pc \in {"load", "exited"}
        /\ boot.pc = "exited" => (boot.err /\ boot.cfg = NoConfig)
        /\ relays = <<>>
        /\ calls = <<>>
        /\ attempts = <<>>

\* A valid relay followed by one with a destination, default methods and a
\* listen path that lacks the slash: the process has exited.
C17_Witness ==
    /\ boot.pc = "exited"
    /\ boot.err
    /\ Len(boot.raw.Relays) = 2
    /\ ~Rejected(boot.raw.Relays[1])
    /\ boot.raw.Relays[2].ListenPath = "a"
    /\ Len(boot.raw.Relays[2].Destinations) = 1
    /\ Len(boot.raw.Relays[2].Methods) = 0
    /\ relays = <<>>

(***************************************************************************)
(* Outcomes and responses                                                  *)
(***************************************************************************)
\* The outcome that goes with what the network call returned: err is its
\* error, ctxErr the state of the attempt's context at that moment.
OutcomeFor(e) ==
    CASE e.err = "nil" -> "success"
      [] e.err # "nil" /\ "deadline" \in {e.err, e.ctxErr} -> "timeout"
      [] e.err # "nil" /\ "deadline" \notin {e.err, e.ctxErr}
                      /\ "canceled" \in {e.err, e.ctxErr} -> "canceled"
      [] OTHER -> "failed"

\* C18: the return of the network call ends the attempt with the one outcome
\* that goes with the error (timeout before canceled before failure, success
\* without error), releases the attempt's slot and changes nothing else.
C18_OneOutcomePerAttempt ==
    /\ \A e \in AllDoResults : classify(e.err, e.ctxErr) = OutcomeFor(e)
    /\ [][\A a \in Attempts, e \in AllDoResults :
            Complete(a, e) =>
                /\ attempts[a].outcome = "none"
                /\ attempts'[a] = [attempts[a] EXCEPT !.pc = "ended",
                                                      !.outcome = OutcomeFor(e),
                                                      !.released = 1]
                /\ \A b \in Attempts \ {a} : attempts'[b] = attempts[b]
                /\ DOMAIN attempts' = DOMAIN attempts
                /\ sem' = sem - 1
                /\ UNCHANGED <<relays, semCap, calls, boot, tp>>]_vars

\* Both attempts of a cancelled direct call made their network call: one
\* ended canceled, the other timed out, and both slots are free again.
C18_Witness ==
    /\ sem = 0
    /\ \E a \in Attempts :
          attempts[a].outcome = "canceled" /\ attempts[a].netCalls = 1 /\ attempts[a].released = 1
    /\ \E a \in Attempts :
          attempts[a].outcome = "timeout" /\ attempts[a].netCalls = 1 /\ attempts[a].released = 1

\* The response of a call that is done, by the exit its request takes.
ResponseOf(c) ==
    [status |-> calls[c].status,
     dropped |-> CanonicalHeaderKey(HeaderDropped) \in DOMAIN calls[c].respHeader,
     requestID |-> CanonicalHeaderKey(HeaderRelayRequestID) \in DOMAIN calls[c].respHeader,
     dispatches |-> calls[c].dispatches]

\* The three tests in their order, on the request as it arrived.
ExpectedResponse(c) ==
    IF Len(relays[calls[c].relay].Methods) # 0 /\ ~MethodInSet(c)
    THEN [status |-> 405, dropped |-> FALSE, requestID |-> FALSE, dispatches |-> 0]
    ELSE IF OwnIDInTrace(c)
    THEN [status |-> 202, dropped |-> TRUE, requestID |-> FALSE, dispatches |-> 0]
    ELSE IF ~calls[c].readOK
    THEN [status |-> 400, dropped |-> FALSE, requestID |-> FALSE, dispatches |-> 0]
    ELSE [status |-> 202, dropped |-> FALSE, requestID |-> TRUE, dispatches |-> 1]

\* C20: a call ends in the one response that the method check, the loop
\* check and the body capture, in this order, decide: 405, 202 with the
\* drop-reason header, 400, or 202 with the request-ID header; the
\* dispatcher is invoked in the last case only, once, and a call that is not
\* yet answered can be answered.
C20_FourResponses ==
    \A c \in HttpCalls :
        /\ calls[c].pc = "done" => ResponseOf(c) = ExpectedResponse(c)
        /\ calls[c].pc # "done" =>
              /\ ExpectedResponse(c).dispatches = 1
              /\ calls[c].dispatches = 1
              /\ ENABLED Respond(c)
        /\ calls[c].dispatches = 0 => AttemptsOf(c) = {}

\* A read failure behind a self loop is a 202, behind a plain request a 400.
C20_Witness ==
    /\ \E c \in HttpCalls :
          /\ ~calls[c].readOK
          /\ OwnIDInTrace(c)
          /\ ResponseOf(c) = [status |-> 202, dropped |-> TRUE, requestID |-> FALSE,
                               dispatches |-> 0]
    /\ \E c \in HttpCalls :
          /\ ~calls[c].readOK
          /\ ~OwnIDInTrace(c)
          /\ calls[c].pc = "done"
          /\ calls[c].status = 400

(***************************************************************************)
(* Lifetime of the attempts                                                *)
(***************************************************************************)
\* C21: once the termination signal has been received the context of the
\* dispatch is done, and an attempt that waits for a slot at that moment
\* never gets one: it abandons without a network call.
C21_QueuedAbandonAtShutdown ==
    [][boot.pc = "shutdown" =>
         \A a \in Attempts :
             Queued(a) => attempts'[a].pc # "acquired" /\ attempts'[a].netCalls = 0]_vars

\* The inbound call c is complete: its handler wrote the response and
\* returned, which cancels the context of the inbound request.
Completed(c) == calls[c].kind = "http" /\ calls[c].pc = "done"

\* C22: the completion of an inbound call never cancels or abandons an
\* attempt of that call: the context of the attempt is not done, so an
\* attempt that waits cannot take the abandoning case of the select and the
\* network call of an attempt in flight cannot return cancelled; every
\* attempt that ended made its one network call (unless its request could
\* not be built) and ended with the outcome of that call.
C22_DetachedDispatch ==
    \A c \in Calls : Completed(c) =>
        \A a \in AttemptsOf(c) :
            /\ ~CtxDone(a)
            /\ attempts[a].outcome \notin {"abandoned", "canceled"}
            /\ Queued(a) => ~attempts[a].early /\ attempts[a].netCalls = 0
            /\ attempts[a].pc = "inflight" =>
                  /\ attempts[a].netCalls = 1
                  /\ DoResults(a) # {}
                  /\ \A e \in DoResults(a) :
                        classify(e.err, e.ctxErr) \in {"success", "timeout", "failed"}
            /\ Ended(a) => attempts[a].outcome \in {"success", "timeout", "failed", "build_failed"}
            /\ Ended(a) /\ attempts[a].outcome # "build_failed" => attempts[a].netCalls = 1

\* The response of a call was written while one of its attempts waits for
\* a slot and another is in flight.
C22_Witness ==
    \E c \in Calls :
        /\ Completed(c)
        /\ \E a, b \in AttemptsOf(c) : Queued(a) /\ attempts[b].pc = "inflight"

\* C23: the capacity of the semaphore is at least one, whatever the
\* configured concurrency; and under a fair scheduler, with network calls
\* that return at the latest at their deadline, every attempt that was
\* started ends (abandoned, or after it held a slot), every slot that was
\* taken is given back, and the semaphore ends up empty.
C23_EveryAttemptEnds ==
    /\ [](semCap >= 1)
    /\ \A a \in 1..MaxBurstAttempts :
          /\ (a \in Attempts) ~> (a \in Attempts /\ Ended(a))
          /\ (a \in Attempts /\ a \in Holding)
                ~> (a \in Attempts /\ a \notin Holding
                      /\ attempts[a].released = attempts[a].acquired)
    /\ [](Attempts # {} => <>(sem = 0 /\ \A a \in Attempts : Ended(a)))

\* A burst of more attempts than the Forwarder has slots was processed to
\* the end: each attempt held the slot, made its network call and gave the
\* slot back.
C23_Witness ==
    /\ semCap < Len(attempts)
    /\ sem = 0
    /\ \A a \in Attempts :
          /\ Ended(a)
          /\ attempts[a].netCalls = 1
          /\ attempts[a].acquired = 1 /\ attempts[a].released = 1

(***************************************************************************)
(* What an attempt writes                                                  *)
(***************************************************************************)
\* A step of the goroutine of attempt a.
StepOf(a) ==
    \/ Acquire(a)
    \/ Build(a)
    \/ \E e \in AllDoResults : Complete(a, e)

\* C24: a step of an attempt writes nothing but the semaphore and the
\* attempt's own request: the calls (inbound header set, captured body), the
\* relays and their destinations (static headers included) and every other
\* attempt stay as they were; so the configuration is the loaded one at all
\* times, and the method, headers and body of every request sent are the
\* ones computed from the inbound request and the attempt's own destination,
\* whatever the other attempts did.
C24_AttemptsShareOnlySemaphore ==
    /\ [][\A a \in Attempts :
            StepOf(a) =>
                /\ calls' = calls
                /\ relays' = relays
                /\ semCap' = semCap
                /\ \A b \in Attempts \ {a} : attempts'[b] = attempts[b]]_vars
    /\ [](relays = ResolveRelays(validateAndDefault(boot.raw),
                                  [i \in DOMAIN boot.raw.Relays |-> "t1"]))
    /\ [](\A a \in Attempts :
            Sent(a) =>
                /\ attempts[a].outReq.method = outMethod(a)
                /\ attempts[a].outReq.header = outHeader(a)
                /\ attempts[a].outReq.body = calls[attempts[a].call].wire)

\* Two attempts of one call sent requests whose headers differ, each with
\* the overrides of its own destination, and the inbound header set still
\* holds what the caller sent and no override.
C24_Witness ==
    \E a, b \in Attempts :
        /\ a # b /\ attempts[a].call = attempts[b].call
        /\ Sent(a) /\ Sent(b)
        /\ DestOf(a).Headers = HostOverride
        /\ DestOf(b).Headers = CorrelationOverride
        /\ Outbound(a) # Outbound(b)
        /\ Outbound(a)["Connection"] = <<<<"o">>>>
        /\ "Connection" \notin DOMAIN Outbound(b)
        /\ Inbound(a) = WithFields(EmptyHeader, <<<<"x-custom", <<"v">>>>>>)

(***************************************************************************)
(* Append, then contains                                                   *)
(***************************************************************************)
\* A relay ID as the claim takes it: non-empty, no comma, no blank around it.
PlainID(id) ==
    /\ id # <<>>
    /\ Strip(id) = id
    /\ \A k \in DOMAIN id : id[k] # ","

\* C25: for every trace and every relay ID that is non-empty, without comma
\* and without surrounding blanks, the trace that append returns contains
\* that ID; and for every other ID x it contains x exactly when the trace
\* before the append did.
C25_AppendContainsRoundTrip ==
    (tp.op = "check" /\ PlainID(tp.id)) =>
        /\ traceContains(tp.out.appended, tp.id)
        /\ Strip(tp.out.x) = tp.id => tp.out.after = TRUE
        /\ Strip(tp.out.x) # tp.id => tp.out.after = tp.out.before

\* Relay b appended its ID, then relay a: the trace holds both in that
\* order, and relay b finds its ID after the append of a as before it.
C25_Witness ==
    /\ tp.op = "check"
    /\ tp.depth = 2
    /\ tp.id = <<"a">>
    /\ tp.out.x = <<"b">>
    /\ tp.out.appended = <<"b", ",", "a">>
    /\ tp.out.after = TRUE
    /\ tp.out.before = TRUE

(***************************************************************************)
(* The default method                                                      *)
(***************************************************************************)
\* The relays were resolved from the loaded configuration.
Resolved == boot.pc \in {"new", "serving"} \/ (boot.pc = "exited" /\ relays # <<>>)

\* The configuration file names no method for relay i.
NoMethodsDeclared(i) == boot.raw.Relays[i].Methods = <<>>

\* C26: a relay for which the configuration names no method is resolved
\* with the method list POST and nothing else; no resolved relay has an
\* empty method list, so methodAllowed never takes its branch for the empty
\* list; and a request to such a relay whose method is not POST is answered
\* 405 before any attempt is started, while a POST passes the method check.
C26_DefaultMethodIsPostOnly ==
    Resolved =>
        /\ DOMAIN relays = DOMAIN boot.raw.Relays
        /\ \A i \in DOMAIN relays :
              /\ Len(relays[i].Methods) # 0
              /\ NoMethodsDeclared(i) =>
                    /\ relays[i].Methods = <<POST>>
                    /\ AllowedSet(i) = {POST}
        /\ \A c \in Calls :
              NoMethodsDeclared(calls[c].relay) =>
                  IF ToUpper(TrimSpace(calls[c].method)) = POST
                  THEN calls[c].exit # "method"
                  ELSE /\ calls[c].exit = "method"
                       /\ calls[c].pc = "done"
                       /\ calls[c].status = StatusMethodNotAllowed
                       /\ AttemptsOf(c) = {}

\* A GET reached a relay that has a destination and names no method: 405
\* and no attempt.
C26_Witness ==
    \E c \in Calls :
        /\ NoMethodsDeclared(calls[c].relay)
        /\ relays[calls[c].relay].Destinations # <<>>
        /\ calls[c].method = GET
        /\ calls[c].status = StatusMethodNotAllowed
        /\ AttemptsOf(c) = {}

====
